---- MODULE Spec2Model ----
(***************************************************************************)
(* Backend process supervisor of the Electron shell: port allocation       *)
(* (findAvailablePort), BackendManager.start / stop and the event handlers *)
(* start() registers on the spawned child.                                 *)
(*                                                                         *)
(* Each action is one run-to-completion step of the Node event loop: the   *)
(* code between two awaits, or one event callback.  What the operating     *)
(* system decides (does a bind succeed, does the file exist, does spawn    *)
(* succeed, what the child prints, when it exits, what tree-kill reports)  *)
(* is an input of the step, drawn with \E.                                 *)
(***************************************************************************)
EXTENDS Integers, Sequences, FiniteSets, TLC

\* ---------------------------------------------------------------- constants
DEFAULT_PORT ==
  7861
MAX_PORT_ATTEMPTS ==
  10

\* ------------------------------------------------------------------- bounds
\* number of start() calls a caller other than the application makes
MaxStarts ==
  2
\* number of stop() calls the caller makes
MaxStops ==
  2
\* number of output chunks (stdout or stderr) the children deliver in all
MaxChunks ==
  2
\* number of text pieces in one stdout chunk
MaxChunkLen ==
  2
\* a start() finds a free port among the first MaxBusy + 1 candidates, or none at all
MaxBusy ==
  1
\* findAvailablePort called directly: startPort in DEFAULT_PORT..DEFAULT_PORT+MaxStartShift
MaxStartShift ==
  1
\* findAvailablePort called directly: maxAttempts in 0..MaxAttemptsArg
MaxAttemptsArg ==
  3
\* number of CallTool requests the server receives
MaxRequests ==
  2

StartIds == 1..MaxStarts
StopIds == 1..MaxStops

\* the stop() calls main.js makes: in the window's 'close' handler, in the
\* 'window-all-closed' handler and in the 'before-quit' handler
CloseStop ==
  MaxStops + 1
AllClosedStop ==
  MaxStops + 2
BeforeQuitStop ==
  MaxStops + 3
HandlerStops ==
  {CloseStop, AllClosedStop, BeforeQuitStop}
AllStops ==
  StopIds \cup HandlerStops

\* ------------------------------------------------------ text of a chunk
\* A chunk of child output is a sequence of text pieces.  The pieces are the
\* substrings the handler looks for and a string of digits (which, away from
\* "localhost:", is text the handler has no use for).
DigitPieces ==
  {"786"}
Pieces ==
  {"initializing", "Running on", "Launching Gradio", "local URL:",
   "localhost:"} \cup DigitPieces
RECURSIVE SeqsUpTo(_, _)
SeqsUpTo(S, n) ==
  IF n = 0 THEN {<<>>}
  ELSE LET shorter == SeqsUpTo(S, n - 1)
       IN shorter \cup {Append(s, x) : s \in {t \in shorter : Len(t) = n - 1}, x \in S}
Chunks ==
  SeqsUpTo(Pieces, MaxChunkLen) \ {<<>>}

\* value and width (as a power of ten) of a digit string
DigitVal(d) ==
  IF d = "786" THEN 786 ELSE 1
DigitShift(d) ==
  IF d = "786" THEN 1000 ELSE 10

\* output.includes(text)
Includes(output, text) ==
  \E i \in DOMAIN output : output[i] = text

\* the digits \d+ takes starting at position i: the longest run of digits
RECURSIVE DigitRun(_, _)
DigitRun(output, i) ==
  IF i > Len(output) \/ output[i] \notin DigitPieces THEN <<>>
  ELSE <<output[i]>> \o DigitRun(output, i + 1)

\* output.match(/localhost:(\d+)/): capture group 1 of the leftmost match,
\* <<>> for null (no match)
PortMatch(output) ==
  LET starts == {i \in DOMAIN output :
                   /\ output[i] = "localhost:"
                   /\ i + 1 <= Len(output)
                   /\ output[i + 1] \in DigitPieces}
  IN IF starts = {} THEN <<>>
     ELSE LET first == CHOOSE i \in starts : \A j \in starts : i <= j
          IN DigitRun(output, first + 1)

\* parseInt(digits, 10)
RECURSIVE ParseInt(_)
ParseInt(digits) ==
  IF digits = <<>> THEN 0
  ELSE LET n == Len(digits)
       IN ParseInt(SubSeq(digits, 1, n - 1)) * DigitShift(digits[n]) + DigitVal(digits[n])

\* the readiness test of the stdout handler
IsReadyOutput(output) ==
  \/ Includes(output, "Running on")
  \/ Includes(output, "Launching Gradio")
  \/ Includes(output, "local URL:")
  \/ PortMatch(output) # <<>>

\* -------------------------------------------------------------------- state
VARIABLES
  process,   \* this.process: 0 for null, else the child (named by the start() call that spawned it)
  port,      \* this.port
  isReady,   \* this.isReady
  call,      \* the start() / findAvailablePort() invocations
  child,     \* the spawned child processes
  stop,      \* the stop() invocations
  app,       \* the application around the supervisor: its window, startApp(), quit
  i18n,      \* utils/i18n.py: the locale files, _translations, the last get_text() call
  srv        \* server.ts: the CallTool request being handled, the usage tracker's counts

vars == <<process, port, isReady, call, child, stop, app, i18n, srv>>

IdleCall ==
  [pc |-> "idle", kind |-> "none", startPort |-> 0, maxAttempts |-> 0,
   offset |-> 0, found |-> 0, probes |-> <<>>, exists |-> "unchecked",
   timer |-> "unset", result |-> 0, error |-> "none", socket |-> 0]
NoChild ==
  [state |-> "none", emitted |-> 0, firstN |-> -1, args |-> <<>>]
IdleStop ==
  [pc |-> "idle", target |-> 0, err |-> FALSE]

\* the application once startApp() has created its window: the window is open,
\* startApp() awaits start(), 'window-all-closed' has not fired, not quit,
\* loadURL has not been called
AppLaunched ==
  [window |-> "open", startApp |-> "awaiting", allClosed |-> "idle", quit |-> FALSE,
   url |-> ""]

\* callbacks run as long as the application has not quit
JsRuns ==
  ~app.quit

\* ------------------------------------------------------------ utils/i18n.py
\* the language codes a caller passes ("fr" has no locale file), the locale
\* files locales/ may hold, the keys a file may define, the keys a caller
\* passes ("no_such_key" is in no file)
LangCodes ==
  {"en", "vi", "fr"}
LocaleFiles ==
  {"en", "vi"}
LocaleKeys ==
  {"app_title", "send_button"}
TextKeys ==
  LocaleKeys \cup {"no_such_key"}

\* the text the file of a language gives a key
Translation(lang, key) ==
  lang \o ":" \o key

\* the locales/ directories: any of the files, each defining any of the keys
LocaleDirs ==
  UNION {[L -> SUBSET LocaleKeys] : L \in SUBSET LocaleFiles}

\* load_translations(): the cache when it is not empty, else every *.json of
\* locales/ loaded under its stem
load_translations(cache, files) ==
  IF DOMAIN cache # {} THEN cache
  ELSE [lang \in DOMAIN files |-> [key \in files[lang] |-> Translation(lang, key)]]

get_text_NoEnglishFallback(translations, key, lang) ==
  IF lang \in DOMAIN translations /\ key \in DOMAIN translations[lang]
    THEN translations[lang][key]
  ELSE key

\* the body of get_text(key, lang) after translations = load_translations()
get_text(translations, key, lang) ==
  IF lang \in DOMAIN translations /\ key \in DOMAIN translations[lang]
    THEN translations[lang][key]
  ELSE IF "en" \in DOMAIN translations /\ key \in DOMAIN translations["en"]
    THEN translations["en"][key]
  ELSE key

\* the module once imported, with the locale files on disk: nothing loaded,
\* get_text() not called
Imported(files) ==
  [files |-> files, translations |-> <<>>, key |-> "", lang |-> "", result |-> ""]

\* ---------------------------------------------------------- docker/server.ts
\* tool names of a CallTool request: a case of the switch whose handler call
\* is wrapped in its own try/catch, a case whose handler call is not, and a
\* name the switch has no case for
ToolNames ==
  {"get_config", "list_searches", "no_such_tool"}
TriedTools ==
  {"get_config"}
KnownTools ==
  {"get_config", "list_searches"}

\* the message of an Error a callee throws
Thrown ==
  "boom"

\* the text of the result the inner catch of a case builds
FailedText(name) ==
  IF name = "get_config" THEN "Error: Failed to get configuration" ELSE ""

\* default: `Error: Unknown tool: ${name}`
UnknownToolText(name) ==
  "Error: Unknown tool: " \o name

\* catch: `Error: ${errorMessage}`
CaughtText(errorMessage) ==
  "Error: " \o errorMessage

\* the server before its first request; success and failure count the calls
\* of usageTracker.trackSuccess and usageTracker.trackFailure made for the
\* request being handled, successfulCalls and failedCalls those made in all
ServerIdle ==
  [pc |-> "idle", name |-> "", isError |-> FALSE, text |-> "", error |-> "",
   success |-> 0, failure |-> 0, requests |-> 0,
   successfulCalls |-> 0, failedCalls |-> 0]

\* the supervisor after construction (the constructor of BackendManager), in
\* an application that has just been launched
Constructed ==
  /\ process = 0
  /\ port = DEFAULT_PORT
  /\ isReady = FALSE
  /\ call = [c \in StartIds |-> IdleCall]
  /\ child = [c \in StartIds |-> NoChild]
  /\ stop = [s \in AllStops |-> IdleStop]
  /\ app = AppLaunched

Init ==
  /\ Constructed
  /\ i18n = Imported([lang \in LocaleFiles |-> LocaleKeys])
  /\ srv = ServerIdle

\* ----------------------------------------------- history kept for the claims
\* The number N a chunk names as "localhost:N": the digits read left to right
\* after the first "localhost:" that a digit follows; 0 when the chunk names none.
RECURSIVE ReadNumber(_, _, _)
ReadNumber(output, i, acc) ==
  IF i > Len(output) \/ output[i] \notin DigitPieces THEN acc
  ELSE ReadNumber(output, i + 1, acc * DigitShift(output[i]) + DigitVal(output[i]))
LocalhostNumber(output) ==
  IF \E i \in 1..(Len(output) - 1) : output[i] = "localhost:" /\ output[i + 1] \in DigitPieces
  THEN LET i == CHOOSE k \in 1..(Len(output) - 1) :
                  /\ output[k] = "localhost:" /\ output[k + 1] \in DigitPieces
                  /\ \A j \in 1..(k - 1) : ~(output[j] = "localhost:" /\ output[j + 1] \in DigitPieces)
       IN ReadNumber(output, i + 1, 0)
  ELSE 0

\* ------------------------------------------------------- findAvailablePort
LoopCond_OffByOne(offset, maxAttempts) ==
  offset <= maxAttempts

\* for (let offset = 0; offset < maxAttempts; offset++)
LoopCond(offset, maxAttempts) ==
  offset < maxAttempts

\* const port = startPort + offset
CandidatePort(startPort, offset) ==
  startPort + offset

ReturnsPort_Inverted(ok) ==
  ~ok

\* if (await isPortAvailable(port)) return port
ReturnsPort(ok) ==
  ok

\* One iteration of the loop: isPortAvailable(port) binds a transient server
\* on the port and resolves true on 'listening' (ok), false on 'error'.
Probe(c, ok) ==
  /\ JsRuns
  /\ call[c].pc = "probing"
  /\ LoopCond(call[c].offset, call[c].maxAttempts)
  /\ LET p == CandidatePort(call[c].startPort, call[c].offset)
     IN call' = [call EXCEPT
                   ![c].probes = Append(@, <<p, ok>>),
                   ![c].pc = IF ReturnsPort(ok) THEN "returned" ELSE @,
                   ![c].found = IF ReturnsPort(ok) THEN p ELSE @,
                   ![c].offset = IF ReturnsPort(ok) THEN @ ELSE @ + 1]
  /\ UNCHANGED <<process, port, isReady, child, stop, app, i18n, srv>>

\* ---- isPortAvailable, event by event (for start() calls that overlap)
\* a port the probe server of another call is bound on
HeldByProbe(c, p) ==
  \E d \in StartIds : d # c /\ call[d].socket = p

\* server.listen(port, 'localhost'): the bind succeeds (ok) or fails; it
\* fails on a port another probe server is bound on
Listen(c, ok) ==
  /\ JsRuns
  /\ call[c].pc = "probing"
  /\ LoopCond(call[c].offset, call[c].maxAttempts)
  /\ LET p == CandidatePort(call[c].startPort, call[c].offset)
     IN /\ ok => ~HeldByProbe(c, p)
        /\ call' = [call EXCEPT ![c].pc = "listening",
                                ![c].socket = IF ok THEN p ELSE 0]
  /\ UNCHANGED <<process, port, isReady, child, stop, app, i18n, srv>>

Released_NoClose(socket) ==
  socket

\* server.close(): the port a probe server is bound on after it
Released(socket) ==
  0

\* server.once('listening'): server.close(); resolve(true), or
\* server.once('error'): resolve(false); then the loop goes on after its await
ListenEvent(c) ==
  /\ JsRuns
  /\ call[c].pc = "listening"
  /\ LET p == CandidatePort(call[c].startPort, call[c].offset)
         ok == call[c].socket # 0
     IN call' = [call EXCEPT
                   ![c].socket = IF ok THEN Released(@) ELSE @,
                   ![c].probes = Append(@, <<p, ok>>),
                   ![c].pc = IF ReturnsPort(ok) THEN "returned" ELSE "probing",
                   ![c].found = IF ReturnsPort(ok) THEN p ELSE @,
                   ![c].offset = IF ReturnsPort(ok) THEN @ ELSE @ + 1]
  /\ UNCHANGED <<process, port, isReady, child, stop, app, i18n, srv>>

\* the loop ends without a return: throw new Error('No available port found ...')
AllocThrow(c) ==
  /\ JsRuns
  /\ call[c].pc = "probing"
  /\ ~LoopCond(call[c].offset, call[c].maxAttempts)
  /\ call' = [call EXCEPT ![c].pc = "threw"]
  /\ UNCHANGED <<process, port, isReady, child, stop, app, i18n, srv>>

\* findAvailablePort(startPort, maxAttempts) called on its own
FindAvailablePort(c, startPort, maxAttempts) ==
  /\ JsRuns
  /\ call[c].pc = "idle"
  /\ \A d \in StartIds : d < c => call[d].pc # "idle"
  /\ call' = [call EXCEPT ![c] = [IdleCall EXCEPT !.pc = "probing", !.kind = "alloc",
                                    !.startPort = startPort, !.maxAttempts = maxAttempts]]
  /\ UNCHANGED <<process, port, isReady, child, stop, app, i18n, srv>>

\* start() called whether or not an earlier start() has settled
RaceStart(c) ==
  /\ JsRuns
  /\ call[c].pc = "idle"
  /\ \A d \in StartIds : d < c => call[d].pc # "idle"
  /\ call' = [call EXCEPT ![c] = [IdleCall EXCEPT !.pc = "probing", !.kind = "start",
                                    !.startPort = DEFAULT_PORT,
                                    !.maxAttempts = MAX_PORT_ATTEMPTS]]
  /\ UNCHANGED <<process, port, isReady, child, stop, app, i18n, srv>>

\* ------------------------------------------------------ BackendManager.start
\* start(): the executor runs up to the first await inside findAvailablePort().
\* The caller awaits one start() before it makes the next.
Start(c) ==
  /\ JsRuns
  /\ call[c].pc = "idle"
  /\ \A d \in StartIds : d < c => call[d].pc \in {"resolved", "rejected"}
  /\ call' = [call EXCEPT ![c] = [IdleCall EXCEPT !.pc = "probing", !.kind = "start",
                                    !.startPort = DEFAULT_PORT,
                                    !.maxAttempts = MAX_PORT_ATTEMPTS]]
  /\ UNCHANGED <<process, port, isReady, child, stop, app, i18n, srv>>

ContinuesAfterAllocError_NoReturn ==
  TRUE

\* what the catch block of start() does with the allocator's error:
\* reject(err); return  -- TRUE when start() goes on to spawn
ContinuesAfterAllocError ==
  FALSE

BackendMissing_Unchecked(exists) ==
  FALSE

\* if (!fs.existsSync(backendPath)) { reject(...); return; }
BackendMissing(exists) ==
  ~exists

SpawnArgs_DefaultPort(p) ==
  <<"-u", "--port", ToString(DEFAULT_PORT)>>

\* the argument list of spawn: ['-u', '--port', this.port.toString()]
SpawnArgs(p) ==
  <<"-u", "--port", ToString(p)>>

SpawnBackend_KeepsFirstHandle(c, spawnOk) ==
  /\ process' = IF process = 0 THEN c ELSE process
  /\ child' = [child EXCEPT ![c].state = IF spawnOk THEN "running" ELSE "spawnfail",
                            ![c].args = SpawnArgs(port')]

\* this.process = spawn(...); setTimeout(...); the four handlers are registered
SpawnBackend(c, spawnOk) ==
  /\ process' = c
  /\ child' = [child EXCEPT ![c].state = IF spawnOk THEN "running" ELSE "spawnfail",
                            ![c].args = SpawnArgs(port')]

\* catch (err) { reject(err); return; }
StartAllocFailed(c, spawnOk) ==
  /\ JsRuns
  /\ call[c].kind = "start"
  /\ call[c].pc = "threw"
  /\ UNCHANGED <<port, isReady, stop, app, i18n, srv>>
  /\ IF ContinuesAfterAllocError
       THEN /\ SpawnBackend(c, spawnOk)
            /\ call' = [call EXCEPT ![c].pc = "rejected", ![c].error = "NoPort",
                                    ![c].timer = "armed"]
       ELSE /\ call' = [call EXCEPT ![c].pc = "rejected", ![c].error = "NoPort"]
            /\ UNCHANGED <<process, child>>

StartAfterAlloc_ResetsOnMissing(c, exists, spawnOk) ==
  /\ JsRuns
  /\ call[c].kind = "start"
  /\ call[c].pc = "returned"
  /\ port' = call[c].found
  /\ IF BackendMissing(exists)
       THEN /\ call' = [call EXCEPT ![c].pc = "rejected", ![c].error = "NotFound",
                                    ![c].exists = "no"]
            /\ process' = 0
            /\ isReady' = FALSE
            /\ UNCHANGED child
       ELSE /\ SpawnBackend(c, spawnOk)
            /\ call' = [call EXCEPT ![c].pc = "pending", ![c].timer = "armed",
                                    ![c].exists = IF exists THEN "yes" ELSE "no"]
            /\ UNCHANGED isReady
  /\ UNCHANGED <<stop, app, i18n, srv>>

\* the rest of the executor once findAvailablePort() has returned
StartAfterAlloc(c, exists, spawnOk) ==
  /\ JsRuns
  /\ call[c].kind = "start"
  /\ call[c].pc = "returned"
  /\ port' = call[c].found
  /\ IF BackendMissing(exists)
       THEN /\ call' = [call EXCEPT ![c].pc = "rejected", ![c].error = "NotFound",
                                    ![c].exists = "no"]
            /\ UNCHANGED <<process, child>>
       ELSE /\ SpawnBackend(c, spawnOk)
            /\ call' = [call EXCEPT ![c].pc = "pending", ![c].timer = "armed",
                                    ![c].exists = IF exists THEN "yes" ELSE "no"]
  /\ UNCHANGED <<isReady, stop, app, i18n, srv>>

Timeout_ClearsHandle(c) ==
  /\ JsRuns
  /\ call[c].timer = "armed"
  /\ call' = [call EXCEPT ![c].timer = "fired",
                          ![c].pc = IF @ = "pending" THEN "rejected" ELSE @,
                          ![c].error = IF call[c].pc = "pending" THEN "Timeout" ELSE @]
  /\ process' = 0
  /\ UNCHANGED <<port, isReady, child, stop, app, i18n, srv>>

Timeout_NoReject(c) ==
  /\ JsRuns
  /\ call[c].timer = "armed"
  /\ call' = [call EXCEPT ![c].timer = "fired"]
  /\ UNCHANGED <<process, port, isReady, child, stop, app, i18n, srv>>

\* setTimeout callback: reject(new Error('Backend startup timeout (60s)'))
Timeout(c) ==
  /\ JsRuns
  /\ call[c].timer = "armed"
  /\ call' = [call EXCEPT ![c].timer = "fired",
                          ![c].pc = IF @ = "pending" THEN "rejected" ELSE @,
                          ![c].error = IF call[c].pc = "pending" THEN "Timeout" ELSE @]
  /\ UNCHANGED <<process, port, isReady, child, stop, app, i18n, srv>>

PortAfterReady_NoOverride(output, oldPort) ==
  oldPort

\* if (portMatch) this.port = parseInt(portMatch[1], 10)
PortAfterReady(output, oldPort) ==
  IF PortMatch(output) # <<>> THEN ParseInt(PortMatch(output)) ELSE oldPort

\* the handler returns early on a chunk that includes 'initializing'
SkipsOutput(output) ==
  Includes(output, "initializing")

\* a child whose stdio is open can deliver one more chunk
RECURSIVE SumEmitted(_)
SumEmitted(n) ==
  IF n = 0 THEN 0 ELSE child[n].emitted + SumEmitted(n - 1)
CanEmit(c) ==
  /\ child[c].state \in {"running", "exited"}
  /\ SumEmitted(MaxStarts) < MaxChunks

StdoutData_KeepsTimer(c, output) ==
  /\ JsRuns
  /\ CanEmit(c)
  /\ IF ~SkipsOutput(output) /\ IsReadyOutput(output)
       THEN /\ port' = PortAfterReady(output, port)
            /\ isReady' = TRUE
            /\ call' = [call EXCEPT
                          ![c].pc = IF @ = "pending" THEN "resolved" ELSE @,
                          ![c].result = IF call[c].pc = "pending" THEN port' ELSE @]
            /\ child' = [child EXCEPT
                          ![c].emitted = @ + 1,
                          ![c].firstN = IF @ = -1 THEN LocalhostNumber(output) ELSE @]
       ELSE /\ child' = [child EXCEPT ![c].emitted = @ + 1]
            /\ UNCHANGED <<port, isReady, call>>
  /\ UNCHANGED <<process, stop, app, i18n, srv>>

\* this.process.stdout.on('data', ...)
StdoutData(c, output) ==
  /\ JsRuns
  /\ CanEmit(c)
  /\ IF ~SkipsOutput(output) /\ IsReadyOutput(output)
       THEN /\ port' = PortAfterReady(output, port)
            /\ isReady' = TRUE
            /\ call' = [call EXCEPT
                          ![c].timer = IF @ = "armed" THEN "cleared" ELSE @,
                          ![c].pc = IF @ = "pending" THEN "resolved" ELSE @,
                          ![c].result = IF call[c].pc = "pending" THEN port' ELSE @]
            /\ child' = [child EXCEPT
                          ![c].emitted = @ + 1,
                          ![c].firstN = IF @ = -1 THEN LocalhostNumber(output) ELSE @]
       ELSE /\ child' = [child EXCEPT ![c].emitted = @ + 1]
            /\ UNCHANGED <<port, isReady, call>>
  /\ UNCHANGED <<process, stop, app, i18n, srv>>

\* this.process.stderr.on('data', ...): logs only
StderrData(c) ==
  /\ JsRuns
  /\ CanEmit(c)
  /\ child' = [child EXCEPT ![c].emitted = @ + 1]
  /\ UNCHANGED <<process, port, isReady, call, stop, app, i18n, srv>>

ErrorEvent_Respawns(c) ==
  /\ JsRuns
  /\ child[c].state = "spawnfail"
  /\ child' = [child EXCEPT ![c].state = "running"]
  /\ UNCHANGED <<process, port, isReady, call, stop, app, i18n, srv>>

\* this.process.on('error', ...): the operating system refused to create the process
ErrorEvent(c) ==
  /\ JsRuns
  /\ child[c].state = "spawnfail"
  /\ child' = [child EXCEPT ![c].state = "closed"]
  /\ call' = [call EXCEPT
                ![c].timer = IF @ = "armed" THEN "cleared" ELSE @,
                ![c].pc = IF @ = "pending" THEN "rejected" ELSE @,
                ![c].error = IF call[c].pc = "pending" THEN "Spawn" ELSE @]
  /\ UNCHANGED <<process, port, isReady, stop, app, i18n, srv>>

\* this.process.on('exit', ...)
ExitEvent_Rejects(c) ==
  /\ JsRuns
  /\ child[c].state = "running"
  /\ child' = [child EXCEPT ![c].state = "exited"]
  /\ isReady' = FALSE
  /\ call' = [call EXCEPT
                ![c].timer = IF @ = "armed" THEN "cleared" ELSE @,
                ![c].pc = IF @ = "pending" THEN "rejected" ELSE @,
                ![c].error = IF call[c].pc = "pending" THEN "Exit" ELSE @]
  /\ UNCHANGED <<process, port, stop, app, i18n, srv>>

ExitEvent_ClearsHandle(c) ==
  /\ JsRuns
  /\ child[c].state = "running"
  /\ child' = [child EXCEPT ![c].state = "exited"]
  /\ isReady' = FALSE
  /\ process' = IF process = c THEN 0 ELSE process
  /\ UNCHANGED <<port, call, stop, app, i18n, srv>>

ExitEvent(c) ==
  /\ JsRuns
  /\ child[c].state = "running"
  /\ child' = [child EXCEPT ![c].state = "exited"]
  /\ isReady' = FALSE
  /\ UNCHANGED <<process, port, call, stop, app, i18n, srv>>

\* the child's stdio streams end after its exit ('close'): no handler is
\* registered, no more output arrives
StdioClose(c) ==
  /\ child[c].state = "exited"
  /\ child' = [child EXCEPT ![c].state = "closed"]
  /\ UNCHANGED <<process, port, isReady, call, stop, app, i18n, srv>>

\* ------------------------------------------------------- BackendManager.stop
\* stop(): if (this.process) kill(this.process.pid, 'SIGTERM', callback)
StopBody(s) ==
  IF process # 0
    THEN stop' = [stop EXCEPT ![s].pc = "killing", ![s].target = process]
    ELSE stop' = [stop EXCEPT ![s].pc = "resolved"]

\* a stop() call of the supervisor's caller
Stop(s) ==
  /\ JsRuns
  /\ stop[s].pc = "idle"
  /\ \A t \in StopIds : t < s => stop[t].pc # "idle"
  /\ StopBody(s)
  /\ UNCHANGED <<process, port, isReady, call, child, app, i18n, srv>>

KillCallback_KeepsHandle(s, err) ==
  /\ JsRuns
  /\ stop[s].pc = "killing"
  /\ isReady' = FALSE
  /\ stop' = [stop EXCEPT ![s].pc = "resolved", ![s].err = err]
  /\ UNCHANGED <<process, port, call, child, app, i18n, srv>>

KillCallback_RejectsOnError(s, err) ==
  /\ JsRuns
  /\ stop[s].pc = "killing"
  /\ IF err
       THEN /\ stop' = [stop EXCEPT ![s].pc = "rejected", ![s].err = err]
            /\ UNCHANGED <<process, isReady>>
       ELSE /\ process' = 0
            /\ isReady' = FALSE
            /\ stop' = [stop EXCEPT ![s].pc = "resolved", ![s].err = err]
  /\ UNCHANGED <<port, call, child, app, i18n, srv>>

KillCallback_CancelsStart(s, err) ==
  /\ JsRuns
  /\ stop[s].pc = "killing"
  /\ process' = 0
  /\ isReady' = FALSE
  /\ stop' = [stop EXCEPT ![s].pc = "resolved", ![s].err = err]
  /\ call' = [c \in StartIds |->
               IF c = stop[s].target /\ call[c].pc = "pending"
                 THEN [call[c] EXCEPT !.pc = "rejected", !.error = "Stopped",
                                      !.timer = "cleared"]
                 ELSE call[c]]
  /\ UNCHANGED <<port, child, app, i18n, srv>>

\* the callback tree-kill invokes, with or without an error
KillCallback(s, err) ==
  /\ JsRuns
  /\ stop[s].pc = "killing"
  /\ process' = 0
  /\ isReady' = FALSE
  /\ stop' = [stop EXCEPT ![s].pc = "resolved", ![s].err = err]
  /\ UNCHANGED <<port, call, child, app, i18n, srv>>

\* ------------------------------------------------------------------ main.js
AppQuit_NoBeforeQuitStop(a) ==
  /\ UNCHANGED stop
  /\ app' = [a EXCEPT !.quit = (a.window = "destroyed")]

\* app.quit(), a being the application as the calling handler leaves it:
\* 'before-quit' is emitted and its handler calls stop() (a stop() that finds
\* no handle has no effect, and one more kill of a child this handler has
\* already issued a kill for has none either); then the windows are asked to
\* close: with no window left the application quits, while an open window's
\* 'close' handler prevents the quit
AppQuit(a) ==
  /\ IF process # 0 /\ stop[BeforeQuitStop].pc = "idle"
       THEN StopBody(BeforeQuitStop)
       ELSE UNCHANGED stop
  /\ app' = [a EXCEPT !.quit = (a.window = "destroyed")]

\* mainWindow.on('close'): e.preventDefault(); await backendManager.stop()
\* (the user closes the window, or a quit asks it to close)
WindowClose ==
  /\ JsRuns
  /\ call[1].pc # "idle"
  /\ app.window = "open"
  /\ stop[CloseStop].pc = "idle"
  /\ StopBody(CloseStop)
  /\ UNCHANGED <<process, port, isReady, call, child, app, i18n, srv>>

CloseDestroy_NoAwait ==
  /\ JsRuns
  /\ app.window = "open"
  /\ stop[CloseStop].pc # "idle"
  /\ app' = [app EXCEPT !.window = "destroyed"]
  /\ UNCHANGED <<process, port, isReady, call, child, stop, i18n, srv>>

\* ... mainWindow.destroy()
CloseDestroy ==
  /\ JsRuns
  /\ app.window = "open"
  /\ stop[CloseStop].pc = "resolved"
  /\ app' = [app EXCEPT !.window = "destroyed"]
  /\ UNCHANGED <<process, port, isReady, call, child, stop, i18n, srv>>

\* app.on('window-all-closed'): await backendManager.stop()
WindowAllClosed ==
  /\ JsRuns
  /\ app.window = "destroyed"
  /\ app.allClosed = "idle"
  /\ StopBody(AllClosedStop)
  /\ app' = [app EXCEPT !.allClosed = "stopping"]
  /\ UNCHANGED <<process, port, isReady, call, child, i18n, srv>>

\* ... if (process.platform !== 'darwin') app.quit()
AllClosedQuit(darwin) ==
  /\ JsRuns
  /\ app.allClosed = "stopping"
  /\ stop[AllClosedStop].pc = "resolved"
  /\ IF darwin
       THEN /\ app' = [app EXCEPT !.allClosed = "done"]
            /\ UNCHANGED stop
       ELSE AppQuit([app EXCEPT !.allClosed = "done"])
  /\ UNCHANGED <<process, port, isReady, call, child, i18n, srv>>

\* the user quits the application (menu, Cmd+Q, quitAndInstall)
UserQuit ==
  /\ JsRuns
  /\ call[1].pc # "idle"
  /\ AppQuit(app)
  /\ UNCHANGED <<process, port, isReady, call, child, i18n, srv>>

\* startApp(): const port = await backendManager.start() returns; the two
\* second delay begins
StartAppResolved ==
  /\ JsRuns
  /\ app.startApp = "awaiting"
  /\ call[1].pc = "resolved"
  /\ app' = [app EXCEPT !.startApp = "delay"]
  /\ UNCHANGED <<process, port, isReady, call, child, stop, i18n, srv>>

\* `http://localhost:${port}`
BackendURL(p) ==
  "http://localhost:" \o ToString(p)

StartAppLoad_UsesPortField ==
  /\ JsRuns
  /\ app.startApp = "delay"
  /\ IF app.window = "open"
       THEN /\ app' = [app EXCEPT !.startApp = "loaded", !.url = BackendURL(port)]
            /\ UNCHANGED stop
       ELSE AppQuit([app EXCEPT !.startApp = "failed"])
  /\ UNCHANGED <<process, port, isReady, call, child, i18n, srv>>

\* ... mainWindow.loadURL(`http://localhost:${port}`), port being the value
\* the awaited start() resolved with; loadURL throws on a destroyed window:
\* the catch block shows the error box and calls app.quit()
StartAppLoad ==
  /\ JsRuns
  /\ app.startApp = "delay"
  /\ IF app.window = "open"
       THEN /\ app' = [app EXCEPT !.startApp = "loaded",
                                  !.url = BackendURL(call[1].result)]
            /\ UNCHANGED stop
       ELSE AppQuit([app EXCEPT !.startApp = "failed"])
  /\ UNCHANGED <<process, port, isReady, call, child, i18n, srv>>

\* startApp(): await backendManager.start() throws: the catch block shows the
\* error box and calls app.quit()
StartAppFailed ==
  /\ JsRuns
  /\ app.startApp = "awaiting"
  /\ call[1].pc = "rejected"
  /\ AppQuit([app EXCEPT !.startApp = "failed"])
  /\ UNCHANGED <<process, port, isReady, call, child, i18n, srv>>

\* -------------------------------------------------------- utils/i18n.py calls
\* get_text(key, lang), load_translations() included
GetText(key, lang) ==
  /\ LET translations == load_translations(i18n.translations, i18n.files)
     IN i18n' = [i18n EXCEPT !.translations = translations,
                             !.key = key, !.lang = lang,
                             !.result = get_text(translations, key, lang)]
  /\ UNCHANGED <<process, port, isReady, call, child, stop, app, srv>>

\* ------------------------------------------- docker/server.ts: CallTool handler
\* a CallTool request arrives: const { name, arguments: args } = request.params;
\* the telemetry calls (capture_call_tool, trackToolCall) are not awaited
CallTool(name) ==
  /\ srv.pc \in {"idle", "returned", "threw"}
  /\ srv.requests < MaxRequests
  /\ srv' = [ServerIdle EXCEPT !.pc = "dispatch", !.name = name,
                               !.requests = srv.requests + 1,
                               !.successfulCalls = srv.successfulCalls,
                               !.failedCalls = srv.failedCalls]
  /\ UNCHANGED <<process, port, isReady, call, child, stop, app, i18n>>

\* switch (name): the handler of the case returns a result (outcome "ok"),
\* returns a result with isError ("error") or throws ("throws"); a case with
\* its own try/catch turns a throw into a result with isError; default builds
\* the unknown-tool result
Dispatch(outcome) ==
  /\ srv.pc = "dispatch"
  /\ srv' =
       IF srv.name \notin KnownTools
         THEN [srv EXCEPT !.pc = "track", !.isError = TRUE,
                          !.text = UnknownToolText(srv.name)]
       ELSE IF outcome = "ok"
         THEN [srv EXCEPT !.pc = "track", !.isError = FALSE, !.text = "done"]
       ELSE IF outcome = "error"
         THEN [srv EXCEPT !.pc = "track", !.isError = TRUE, !.text = "Error: refused"]
       ELSE IF srv.name \in TriedTools
         THEN [srv EXCEPT !.pc = "track", !.isError = TRUE,
                          !.text = FailedText(srv.name)]
       ELSE [srv EXCEPT !.pc = "catch", !.error = Thrown]
  /\ UNCHANGED <<process, port, isReady, call, child, stop, app, i18n>>

\* if (result.isError) await usageTracker.trackFailure(name)
\* else await usageTracker.trackSuccess(name); the call may throw
Track(throws) ==
  /\ srv.pc = "track"
  /\ srv' =
       IF srv.isError
         THEN [srv EXCEPT !.failure = @ + 1, !.failedCalls = @ + 1,
                          !.pc = IF throws THEN "catch" ELSE "returned",
                          !.error = IF throws THEN Thrown ELSE @]
         ELSE [srv EXCEPT !.success = @ + 1, !.successfulCalls = @ + 1,
                          !.pc = IF throws THEN "catch" ELSE "post",
                          !.error = IF throws THEN Thrown ELSE @]
  /\ UNCHANGED <<process, port, isReady, call, child, stop, app, i18n>>

\* the post-processing of a successful result: the onboarding message, the
\* feedback prompt, processDockerPrompt; it leaves the result as it is
\* ("none"), appends a message to its text ("message") or throws ("throws");
\* then return result
PostProcess(outcome) ==
  /\ srv.pc = "post"
  /\ srv' =
       IF outcome = "throws" THEN [srv EXCEPT !.pc = "catch", !.error = Thrown]
       ELSE IF outcome = "message"
         THEN [srv EXCEPT !.pc = "returned", !.text = @ \o " [prompt]"]
       ELSE [srv EXCEPT !.pc = "returned"]
  /\ UNCHANGED <<process, port, isReady, call, child, stop, app, i18n>>

\* catch (error): await usageTracker.trackFailure(name), which may throw (the
\* handler then throws); else return the result with isError and the message
Catch(throws) ==
  /\ srv.pc = "catch"
  /\ srv' =
       IF throws
         THEN [srv EXCEPT !.failure = @ + 1, !.failedCalls = @ + 1, !.pc = "threw"]
         ELSE [srv EXCEPT !.failure = @ + 1, !.failedCalls = @ + 1,
                          !.pc = "returned", !.isError = TRUE,
                          !.text = CaughtText(srv.error)]
  /\ UNCHANGED <<process, port, isReady, call, child, stop, app, i18n>>

\* ----------------------------------------------------------- specifications
\* what the binds of one start() may answer: busy anywhere, free only among
\* the first MaxBusy + 1 candidates
BindAnswers(c) ==
  {FALSE} \cup (IF call[c].offset <= MaxBusy THEN {TRUE} ELSE {})

\* the application calls start() once: startApp() in main.js
AppStart ==
  Start(1)

\* one probe of a start()'s allocator
StartProbe(c) ==
  \E ok \in BindAnswers(c) : Probe(c, ok)

Next ==
  \/ AppStart
  \/ \E c \in StartIds : StartProbe(c)
  \/ \E c \in StartIds : AllocThrow(c)
  \/ \E c \in StartIds, spawnOk \in BOOLEAN : StartAllocFailed(c, spawnOk)
  \/ \E c \in StartIds, exists \in BOOLEAN, spawnOk \in BOOLEAN : StartAfterAlloc(c, exists, spawnOk)
  \/ \E c \in StartIds : Timeout(c)
  \/ \E c \in StartIds, output \in Chunks : StdoutData(c, output)
  \/ \E c \in StartIds : StderrData(c)
  \/ \E c \in StartIds : ErrorEvent(c)
  \/ \E c \in StartIds : ExitEvent(c)
  \/ \E c \in StartIds : StdioClose(c)
  \/ \E s \in StopIds : Stop(s)
  \/ \E s \in StopIds, err \in BOOLEAN : KillCallback(s, err)

Spec ==
  Init /\ [][Next]_vars

\* the supervisor under a caller that starts it again after a start() has settled
NextRestart ==
  \/ \E c \in StartIds : Start(c)
  \/ Next

SpecRestart ==
  Init /\ [][NextRestart]_vars

\* the port allocator on its own, for every start port and attempt count
NextAlloc ==
  \/ \E c \in StartIds, p \in DEFAULT_PORT..(DEFAULT_PORT + MaxStartShift),
        n \in 0..MaxAttemptsArg : FindAvailablePort(c, p, n)
  \/ \E c \in StartIds, ok \in BOOLEAN : Probe(c, ok)
  \/ \E c \in StartIds : AllocThrow(c)

SpecAlloc ==
  Init /\ [][NextAlloc]_vars

\* the supervisor under the event loop's scheduling: a bind attempt answers,
\* the executor of start() runs on after its await, an armed timer fires, a
\* failed spawn emits 'error'
Fairness ==
  \A c \in StartIds :
    /\ WF_vars(StartProbe(c))
    /\ WF_vars(AllocThrow(c))
    /\ WF_vars(\E spawnOk \in BOOLEAN : StartAllocFailed(c, spawnOk))
    /\ WF_vars(\E exists \in BOOLEAN, spawnOk \in BOOLEAN : StartAfterAlloc(c, exists, spawnOk))
    /\ WF_vars(Timeout(c))
    /\ WF_vars(ErrorEvent(c))

SpecFair ==
  Init /\ [][Next]_vars /\ Fairness

\* the supervisor inside the application: main.js is its only caller
NextApp ==
  \/ AppStart
  \/ \E c \in StartIds : StartProbe(c)
  \/ \E c \in StartIds : AllocThrow(c)
  \/ \E c \in StartIds, spawnOk \in BOOLEAN : StartAllocFailed(c, spawnOk)
  \/ \E c \in StartIds, exists \in BOOLEAN, spawnOk \in BOOLEAN : StartAfterAlloc(c, exists, spawnOk)
  \/ \E c \in StartIds : Timeout(c)
  \/ \E c \in StartIds, output \in Chunks : StdoutData(c, output)
  \/ \E c \in StartIds : StderrData(c)
  \/ \E c \in StartIds : ErrorEvent(c)
  \/ \E c \in StartIds : ExitEvent(c)
  \/ \E c \in StartIds : StdioClose(c)
  \/ \E s \in HandlerStops, err \in BOOLEAN : KillCallback(s, err)
  \/ WindowClose
  \/ CloseDestroy
  \/ WindowAllClosed
  \/ \E darwin \in BOOLEAN : AllClosedQuit(darwin)
  \/ UserQuit
  \/ StartAppResolved
  \/ StartAppLoad
  \/ StartAppFailed

SpecApp ==
  Init /\ [][NextApp]_vars

\* utils/i18n.py on its own, for every locales/ directory
InitI18n ==
  /\ Constructed
  /\ i18n \in {Imported(files) : files \in LocaleDirs}
  /\ srv = ServerIdle

NextI18n ==
  \E key \in TextKeys, lang \in LangCodes : GetText(key, lang)

SpecI18n ==
  InitI18n /\ [][NextI18n]_vars

\* one bind of a start() whose probes are taken event by event
StartListen(c) ==
  \E ok \in BindAnswers(c) : Listen(c, ok)

\* the supervisor under a caller whose start() calls overlap, with children
\* that write nothing
NextRace ==
  \/ \E c \in StartIds : RaceStart(c)
  \/ \E c \in StartIds : StartListen(c)
  \/ \E c \in StartIds : ListenEvent(c)
  \/ \E c \in StartIds : AllocThrow(c)
  \/ \E c \in StartIds, spawnOk \in BOOLEAN : StartAllocFailed(c, spawnOk)
  \/ \E c \in StartIds, exists \in BOOLEAN, spawnOk \in BOOLEAN : StartAfterAlloc(c, exists, spawnOk)
  \/ \E c \in StartIds : Timeout(c)
  \/ \E c \in StartIds : ErrorEvent(c)
  \/ \E c \in StartIds : ExitEvent(c)
  \/ \E c \in StartIds : StdioClose(c)
  \/ \E s \in StopIds : Stop(s)
  \/ \E s \in StopIds, err \in BOOLEAN : KillCallback(s, err)

SpecRace ==
  Init /\ [][NextRace]_vars

\* the CallTool request handler on its own, one request after another
NextSrv ==
  \/ \E name \in ToolNames : CallTool(name)
  \/ \E outcome \in {"ok", "error", "throws"} : Dispatch(outcome)
  \/ \E throws \in BOOLEAN : Track(throws)
  \/ \E outcome \in {"none", "message", "throws"} : PostProcess(outcome)
  \/ \E throws \in BOOLEAN : Catch(throws)

SpecSrv ==
  Init /\ [][NextSrv]_vars

TypeOK ==
  /\ process \in 0..MaxStarts
  /\ port \in Nat
  /\ isReady \in BOOLEAN
  /\ \A c \in StartIds :
       /\ call[c].pc \in {"idle", "probing", "listening", "returned", "threw", "pending",
                          "resolved", "rejected"}
       /\ call[c].timer \in {"unset", "armed", "cleared", "fired"}
       /\ child[c].state \in {"none", "running", "spawnfail", "exited", "closed"}
  /\ \A s \in AllStops : stop[s].pc \in {"idle", "killing", "resolved", "rejected"}
  /\ app.window \in {"open", "destroyed"}
  /\ app.startApp \in {"awaiting", "delay", "loaded", "failed"}
  /\ app.allClosed \in {"idle", "stopping", "done"}
  /\ app.quit \in BOOLEAN
  /\ i18n.files \in LocaleDirs
  /\ i18n.result \in {""} \cup TextKeys \cup {Translation(l, k) : l \in LocaleFiles, k \in LocaleKeys}

\* ------------------------------------------------------------------ claims
Settled(c) ==
  call[c].pc \in {"resolved", "rejected"}
Spawned(c) ==
  child[c].state # "none"
\* the ports a call has probed, and those it found busy
ProbedPorts(c) ==
  {call[c].probes[i][1] : i \in DOMAIN call[c].probes}
BusyPorts(c) ==
  {call[c].probes[i][1] : i \in {j \in DOMAIN call[c].probes : ~call[c].probes[j][2]}}
DefaultRange ==
  DEFAULT_PORT..(DEFAULT_PORT + MAX_PORT_ATTEMPTS - 1)
\* the children a stop() has sent a tree-kill to
KillsOf(c) ==
  Cardinality({s \in StopIds : stop[s].target = c})

\* C1: a start() that found every port of [7861, 7871) busy is rejected with
\* the allocator's no-port error and never calls spawn.
C1_AllBusyRejectsWithoutSpawn ==
  \A c \in StartIds :
    (call[c].kind = "start" /\ BusyPorts(c) = DefaultRange) =>
      /\ call[c].pc \in {"probing", "threw", "rejected"}
      /\ call[c].pc = "rejected" => call[c].error = "NoPort"
      /\ ~Spawned(c)
      /\ process # c
C1_Witness ==
  \E c \in StartIds :
    /\ call[c].kind = "start" /\ BusyPorts(c) = DefaultRange
    /\ call[c].pc = "rejected" /\ call[c].error = "NoPort"

C3_NoHandleAfterTimeout ==
  \A c \in StartIds :
    (call[c].error = "Timeout" /\ child[c].emitted = 0) => process # c

\* C3 (amended): the timeout only rejects start(): the handle keeps referring
\* to the spawned child until a stop() callback clears it or the next start()
\* spawns, so the handle is that child's as long as no stop() has issued a
\* kill and no later start() has been made.
C3_TimeoutKeepsHandle ==
  \A c \in StartIds :
    ( /\ call[c].error = "Timeout"
      /\ \A s \in StopIds : stop[s].target = 0
      /\ \A d \in StartIds : d > c => call[d].pc = "idle" )
    => process = c
\* ... and a stop() made then issues a kill for that child
C3_Witness ==
  \E c \in StartIds, s \in StopIds :
    /\ call[c].error = "Timeout" /\ child[c].emitted = 0
    /\ stop[s].pc = "killing" /\ stop[s].target = c

\* C4 (as claimed): a child whose start() resolved is sent at most one
\* tree-kill: a second stop() issues no further kill, even before the first
\* kill's callback has run.
C4_SecondStopIssuesNoKill ==
  \A c \in StartIds : call[c].pc = "resolved" => KillsOf(c) <= 1

\* C4 (amended): stop() issues a kill for the tracked child; a stop() made
\* after an earlier stop()'s kill callback has run issues no kill for that
\* child again, and finding the handle empty it issues no kill at all and
\* changes nothing.
C4_StopAfterCallbackIsNoOp ==
  [][\A t \in StopIds :
       (stop[t].pc = "idle" /\ stop'[t].pc # "idle") =>
         /\ process # 0 => (stop'[t].pc = "killing" /\ stop'[t].target = process)
         /\ \A s \in StopIds :
              (stop[s].pc = "resolved" /\ stop[s].target # 0)
                => stop'[t].target # stop[s].target
         /\ process = 0 =>
              /\ stop'[t].pc = "resolved" /\ stop'[t].target = 0
              /\ UNCHANGED <<process, port, isReady, call, child>>]_vars
C4_Witness ==
  \E c \in StartIds, s, t \in StopIds :
    /\ call[c].pc = "resolved"
    /\ s < t
    /\ stop[s].pc = "resolved" /\ stop[s].target = c
    /\ stop[t].pc = "resolved" /\ stop[t].target = 0
    /\ process = 0

\* C5: when the first readiness chunk of a child names localhost:N, the port
\* field becomes N, and a start() that is pending resolves with N.
C5_ReadinessPortOverrides ==
  [][\A c \in StartIds :
       (child[c].firstN = -1 /\ child'[c].firstN > 0) =>
         /\ port' = child'[c].firstN
         /\ call[c].pc = "pending" =>
              (call'[c].pc = "resolved" /\ call'[c].result = child'[c].firstN)]_vars
C5_Witness ==
  \E c \in StartIds :
    /\ call[c].pc = "resolved"
    /\ child[c].firstN > 0
    /\ call[c].result = child[c].firstN
    /\ call[c].result # call[c].found
    /\ port = call[c].result

\* C6: findAvailablePort(P, N) probes no port outside [P, P+N).
C6_ProbesStayInRange ==
  \A c \in StartIds :
    \A q \in ProbedPorts(c) :
      call[c].startPort <= q /\ q < call[c].startPort + call[c].maxAttempts
C6_Witness ==
  \E c \in StartIds :
    /\ call[c].kind = "alloc" /\ call[c].pc = "threw"
    /\ call[c].maxAttempts = MaxAttemptsArg
    /\ call[c].startPort # DEFAULT_PORT
    /\ ProbedPorts(c) = call[c].startPort..(call[c].startPort + call[c].maxAttempts - 1)

\* C7: the port findAvailablePort(P, N) returns is in [P, P+N), was found free,
\* every lower port of the range was probed and found busy, and no higher
\* port was probed.
C7_ReturnsFirstFreePort ==
  \A c \in StartIds :
    call[c].pc = "returned" =>
      LET r == call[c].found
      IN /\ call[c].startPort <= r /\ r < call[c].startPort + call[c].maxAttempts
         /\ \E i \in DOMAIN call[c].probes : call[c].probes[i] = <<r, TRUE>>
         /\ BusyPorts(c) = call[c].startPort..(r - 1)
         /\ ProbedPorts(c) = call[c].startPort..r
C7_Witness ==
  \E c \in StartIds :
    /\ call[c].kind = "alloc" /\ call[c].pc = "returned"
    /\ call[c].found > call[c].startPort
    /\ call[c].found < call[c].startPort + call[c].maxAttempts - 1

\* C8: stop() never rejects; when its kill callback runs, with or without an
\* error, it resolves and leaves the handle empty and ready false; a stop()
\* made with no handle resolves at once, issues no kill and changes nothing.
C8_StopAlwaysResolvesCleared ==
  [][\A s \in StopIds :
       /\ stop'[s].pc # "rejected"
       /\ (stop[s].pc = "killing" /\ stop'[s].pc # "killing") =>
            (stop'[s].pc = "resolved" /\ process' = 0 /\ isReady' = FALSE)
       /\ (stop[s].pc = "idle" /\ stop'[s].pc # "idle" /\ process = 0) =>
            /\ stop'[s].pc = "resolved" /\ stop'[s].target = 0
            /\ UNCHANGED <<process, port, isReady, call, child>>]_vars
C8_Witness ==
  \E s, t \in StopIds :
    /\ stop[s].pc = "resolved" /\ stop[s].target # 0 /\ stop[s].err
    /\ stop[t].pc = "resolved" /\ stop[t].target = 0
    /\ process = 0 /\ ~isReady

\* C9 (as claimed): a child's output makes ready true at most once, and only
\* while the child has not exited.
C9_ReadyOncePerLifetime ==
  [][\A c \in StartIds :
       (child'[c].emitted > child[c].emitted /\ ~isReady /\ isReady') =>
         (child[c].firstN = -1 /\ child[c].state = "running")]_vars

\* C10 (as claimed): once start() has resolved, the port field keeps the value
\* start() resolved with until the next start().
C10_PortFixedAfterResolve ==
  \A c \in StartIds :
    (call[c].pc = "resolved" /\ \A d \in StartIds : d > c => call[d].pc = "idle")
      => port = call[c].result

\* a child that runs and that no stop() has issued a kill for
Alive(c) ==
  child[c].state = "running" /\ \A s \in AllStops : stop[s].target # c

\* C11 (as claimed): whatever start() and stop() calls have been made, at most
\* one spawned child is alive, and a live child is the one the process handle
\* refers to.
C11_OneLiveChildTracked ==
  /\ Cardinality({c \in StartIds : Alive(c)}) <= 1
  /\ \A c \in StartIds : Alive(c) => process = c

\* C12: every start() that has been called eventually settles; a settled
\* start() keeps its outcome; it settles by resolving with the port field on a
\* readiness chunk, or by rejecting with the no-port error when the allocator
\* threw, the not-found error when the executable is missing, the spawn error
\* on the child's 'error' event, or the timeout error when the timer fires;
\* and the timer firing on a pending start() rejects it with the timeout error.
C12_StartSettlesOnce ==
  /\ \A c \in StartIds : (call[c].pc # "idle") ~> Settled(c)
  /\ [][\A c \in StartIds :
          /\ Settled(c) =>
               /\ call'[c].pc = call[c].pc
               /\ call'[c].result = call[c].result
               /\ call'[c].error = call[c].error
          /\ (call[c].pc = "pending" /\ call'[c].timer = "fired") =>
               (call'[c].pc = "rejected" /\ call'[c].error = "Timeout")
          /\ (~Settled(c) /\ call'[c].pc = "resolved") =>
               /\ call[c].pc = "pending" /\ call'[c].error = "none"
               /\ child'[c].emitted = child[c].emitted + 1 /\ child'[c].firstN # -1
               /\ call'[c].result = port'
          /\ (~Settled(c) /\ call'[c].pc = "rejected") =>
               \/ call'[c].error = "NoPort" /\ call[c].pc = "threw"
               \/ call'[c].error = "NotFound" /\ call[c].pc = "returned"
               \/ /\ call'[c].error = "Spawn" /\ call[c].pc = "pending"
                  /\ child[c].state = "spawnfail"
               \/ /\ call'[c].error = "Timeout" /\ call[c].pc = "pending"
                  /\ call[c].timer = "armed" /\ call'[c].timer = "fired"]_vars
C12_Witness ==
  \E c \in StartIds :
    /\ call[c].pc = "rejected" /\ call[c].error = "Timeout"
    /\ child[c].state = "running" /\ child[c].emitted > 0 /\ child[c].firstN = -1

\* C13: a child is spawned only in the executor step of its own start() call,
\* once, after that call's allocator has returned; the handle is given a child
\* only in that step; a call is probed for only while its one allocator run
\* goes on, candidate after candidate; so no timeout, 'error' or 'exit' step
\* spawns or probes anything.
C13_NoSpawnWithoutStart ==
  [][\A c \in StartIds :
       /\ (child'[c].state \in {"running", "spawnfail"} /\ child'[c].state # child[c].state) =>
            /\ child[c].state = "none"
            /\ call[c].kind = "start" /\ call[c].pc = "returned" /\ call'[c].pc = "pending"
       /\ child'[c].args # child[c].args => (child[c].state = "none" /\ call[c].pc = "returned")
       /\ (process' # process /\ process' = c) => (child[c].state = "none" /\ call[c].pc = "returned")
       /\ call'[c].probes # call[c].probes =>
            /\ call[c].pc = "probing"
            /\ Len(call'[c].probes) = Len(call[c].probes) + 1
       /\ Len(call[c].probes) <= call[c].maxAttempts
       /\ \A i \in DOMAIN call[c].probes : call[c].probes[i][1] = call[c].startPort + i - 1
       /\ call[c].pc \in {"idle", "probing", "threw"} => ~Spawned(c)]_vars
C13_Witness ==
  \E c, d \in StartIds :
    /\ c < d
    /\ call[c].error = "Timeout" /\ child[c].state = "closed"
    /\ call[d].pc = "pending" /\ child[d].state = "running" /\ process = d

\* C14 (as claimed): a stdout chunk that contains "Running on", "Launching
\* Gradio" or "local URL:", or matches localhost:<digits>, sets ready and
\* resolves a pending start(); any other stdout chunk, and every stderr
\* chunk, leaves ready, the port field and start() as they are.
C14_MarkerChunkTriggersReadiness ==
  [][\A c \in StartIds :
       /\ \A output \in Chunks :
            StdoutData(c, output) =>
              IF IsReadyOutput(output)
                THEN /\ isReady'
                     /\ call[c].pc = "pending" => call'[c].pc = "resolved"
                ELSE UNCHANGED <<isReady, port, call>>
       /\ StderrData(c) => UNCHANGED <<isReady, port, call>>]_vars

FileHasKey(lang, key) ==
  lang \in DOMAIN i18n.files /\ key \in i18n.files[lang]

\* C17: get_text(key, lang) returns the text the file of lang gives the key
\* when that file defines it, else the text the English file gives it when
\* that file defines it, else the key itself; for every key and language
\* code, with or without a file, it returns one of these.
C17_FallbackChain ==
  i18n.key # "" =>
    /\ i18n.result =
         IF FileHasKey(i18n.lang, i18n.key) THEN Translation(i18n.lang, i18n.key)
         ELSE IF FileHasKey("en", i18n.key) THEN Translation("en", i18n.key)
         ELSE i18n.key
    /\ i18n.result \in {i18n.key} \cup {Translation(l, i18n.key) : l \in {i18n.lang, "en"}}
\* asked in Vietnamese for a key only the English file defines, and in a
\* language without a file
C17_Witness ==
  /\ i18n.lang \in {"vi", "fr"}
  /\ i18n.key \in LocaleKeys
  /\ ~FileHasKey(i18n.lang, i18n.key)
  /\ FileHasKey("en", i18n.key)
  /\ i18n.result = Translation("en", i18n.key)

\* C18: the step in which a child's first readiness chunk is detected leaves
\* the startup timer cancelled and ready true, and resolves a pending start()
\* with the port field as that step leaves it; start() resolves in no other
\* step; and once start() has resolved its timer is cancelled and never
\* fires, and start() stays resolved with the same value.
C18_FirstReadinessResolves ==
  [][\A c \in StartIds :
       /\ (child[c].firstN = -1 /\ child'[c].firstN # -1) =>
            /\ call[c].timer = "armed" => call'[c].timer = "cleared"
            /\ call'[c].timer # "armed"
            /\ isReady'
            /\ call[c].pc = "pending" =>
                 (call'[c].pc = "resolved" /\ call'[c].result = port')
       /\ (call[c].pc # "resolved" /\ call'[c].pc = "resolved") =>
            (child[c].firstN = -1 /\ child'[c].firstN # -1)
       /\ call[c].pc = "resolved" =>
            /\ call[c].timer = "cleared" /\ call'[c].timer = "cleared"
            /\ call[c].error = "none"
            /\ call'[c].pc = "resolved" /\ call'[c].result = call[c].result]_vars
\* a start() that resolved with the allocated port on a chunk naming no
\* port, its child having written again since
C18_Witness ==
  \E c \in StartIds :
    /\ call[c].pc = "resolved" /\ call[c].timer = "cleared"
    /\ child[c].firstN = 0 /\ child[c].emitted = 2
    /\ call[c].result = call[c].found

\* C19: the 'exit' of a child changes nothing of its start(): a pending
\* start() stays pending and its timer stays armed; and a start() whose child
\* exited before any readiness chunk is rejected only by the step in which
\* the timer fires, with the timeout error.
C19_EarlyExitLeavesStartPending ==
  [][\A c \in StartIds :
       /\ (child[c].state = "running" /\ child'[c].state = "exited") =>
            /\ call'[c] = call[c]
            /\ call[c].pc = "pending" => call'[c].timer = "armed"
       /\ (call[c].pc = "pending" /\ child[c].state \in {"exited", "closed"}) =>
            /\ call[c].timer = "armed"
            /\ call'[c].pc = "rejected" =>
                 (call'[c].timer = "fired" /\ call'[c].error = "Timeout")]_vars
\* the child exited without a word and start() was later rejected by the timer
C19_Witness ==
  \E c \in StartIds :
    /\ child[c].state \in {"exited", "closed"} /\ child[c].emitted = 0
    /\ call[c].pc = "rejected" /\ call[c].error = "Timeout" /\ call[c].timer = "fired"
    /\ ~isReady

\* C20: the process handle changes only in the step of start() that spawns
\* (it then refers to the new child) and in the kill callback of a stop() (it
\* is then empty); a step that delivers a stdout or stderr chunk, the 'error'
\* or 'exit' event, the end of the child's stdio or the firing of the timer
\* leaves it unchanged; so the handle refers to a spawned child, whether it
\* has exited or its start() has timed out, as long as no stop() has issued a
\* kill and no later start() has spawned.
C20_HandleChangedOnlyByStartAndStop ==
  [][/\ process' # process =>
          \/ \E c \in StartIds :
               /\ process' = c
               /\ call[c].pc = "returned" /\ call'[c].pc = "pending"
               /\ child[c].state = "none" /\ child'[c].state # "none"
          \/ /\ process' = 0
             /\ \E s \in AllStops : stop[s].pc = "killing" /\ stop'[s].pc = "resolved"
     /\ \A c \in StartIds :
          ( \/ child'[c].emitted # child[c].emitted
            \/ child[c].state # "none" /\ child'[c].state # child[c].state
            \/ call[c].timer = "armed" /\ call'[c].timer = "fired" )
          => process' = process
     /\ \A c \in StartIds :
          ( /\ Spawned(c)
            /\ \A s \in AllStops : stop[s].target = 0
            /\ \A d \in StartIds : d > c => ~Spawned(d) )
          => process = c]_vars
\* the child wrote, exited, and its start() timed out: the handle is still its
C20_Witness ==
  \E c \in StartIds :
    /\ child[c].state = "exited" /\ child[c].emitted = 2
    /\ call[c].error = "Timeout"
    /\ process = c

\* C29 (as claimed): the CallTool handler never throws; when an exception was
\* caught it returns a result with isError carrying the message; for a name
\* without a case it returns isError with "Error: Unknown tool: <name>".
C29_CallToolNeverThrows ==
  /\ srv.pc # "threw"
  /\ (srv.pc = "returned" /\ srv.error # "") =>
       (srv.isError /\ srv.text = "Error: " \o srv.error)
  /\ (srv.pc = "returned" /\ srv.name \notin KnownTools) =>
       (srv.isError /\ srv.text = "Error: Unknown tool: " \o srv.name)

\* C30 (as claimed): when the handler has returned or thrown, exactly one of
\* trackSuccess and trackFailure has been called for the request, once:
\* trackFailure when the result has isError or an exception was thrown,
\* trackSuccess otherwise.
C30_TrackedExactlyOnce ==
  srv.pc \in {"returned", "threw"} =>
    /\ srv.success + srv.failure = 1
    /\ srv.failure = 1 <=> (srv.isError \/ srv.error # "")

\* the stop() calls that have issued a kill for a child
KilledBy(c) ==
  {s \in AllStops : stop[s].target = c}

\* C21: with start() calls that overlap, the step that spawns a child makes
\* the handle refer to it whatever the handle was, and issues no kill and
\* changes nothing for the other children; a stop() issues a kill for the
\* handle's child only; so a running child the handle does not refer to, and
\* that no kill has been issued for, never has a kill issued for it.
C21_LaterSpawnTakesHandle ==
  [][\A c \in StartIds :
       /\ (child[c].state = "none" /\ child'[c].state # "none") =>
            /\ process' = c
            /\ stop' = stop
            /\ \A d \in StartIds : d # c => child'[d] = child[d]
       /\ \A s \in AllStops :
            (stop[s].pc = "idle" /\ stop'[s].pc = "killing") => stop'[s].target = process
       /\ (child[c].state = "running" /\ process # c /\ KilledBy(c) = {}) =>
            (process' # c /\ KilledBy(c)' = {})]_vars
\* two start() calls pending at once whose allocators returned the same
\* port; both children run; the stop() that followed killed the later one,
\* its callback emptied the handle, and no kill was issued for the other
C21_Witness ==
  \E c, d \in StartIds :
    /\ c # d
    /\ call[c].pc = "pending" /\ call[d].pc = "pending"
    /\ call[c].found = call[d].found
    /\ child[c].args = child[d].args
    /\ child[c].state = "running" /\ child[d].state = "running"
    /\ \E s \in StopIds : stop[s].pc = "resolved" /\ stop[s].target = d
    /\ KilledBy(c) = {}
    /\ process = 0

\* C23: a probe server is bound only between the bind and the event that
\* answers it: once findAvailablePort has returned a port or thrown, and so
\* when the child is spawned, no probe socket of that call is bound.
C23_NoProbeSocketAfterReturn ==
  \A c \in StartIds :
    /\ call[c].socket # 0 => call[c].pc = "listening"
    /\ call[c].pc \in {"returned", "threw", "pending", "resolved", "rejected"} =>
         call[c].socket = 0
    /\ Spawned(c) => call[c].socket = 0
\* the allocator found its first candidate busy, bound the second, released
\* it and returned it, and the child was spawned on it
C23_Witness ==
  \E c \in StartIds :
    /\ child[c].state = "running"
    /\ call[c].probes = <<<<DEFAULT_PORT, FALSE>>, <<DEFAULT_PORT + 1, TRUE>>>>
    /\ call[c].found = DEFAULT_PORT + 1
    /\ call[c].socket = 0

\* C22: a step of stop(), the call or its kill callback, leaves every start()
\* and every startup timer as it is; a pending start() has its timer armed,
\* and stops being pending only when the timer fires (rejected with the
\* timeout error), on a readiness chunk (resolved) or on the child's 'error'
\* event (rejected with the spawn error).
C22_StopDoesNotCancelStart ==
  [][/\ (\E s \in AllStops : stop'[s] # stop[s]) => call' = call
     /\ \A c \in StartIds :
          /\ call[c].pc = "pending" => call[c].timer = "armed"
          /\ (call[c].pc = "pending" /\ call'[c].pc # "pending") =>
               \/ /\ call'[c].pc = "rejected" /\ call'[c].error = "Timeout"
                  /\ call'[c].timer = "fired"
               \/ /\ call'[c].pc = "resolved"
                  /\ child'[c].emitted = child[c].emitted + 1
               \/ /\ call'[c].pc = "rejected" /\ call'[c].error = "Spawn"
                  /\ child[c].state = "spawnfail"]_vars
\* stop() was called while start() was pending and its kill callback has
\* run: start() is still pending and its timer is still armed
C22_Witness ==
  \E c \in StartIds, s \in StopIds :
    /\ call[c].pc = "pending" /\ call[c].timer = "armed"
    /\ stop[s].pc = "resolved" /\ stop[s].target = c
    /\ process = 0

\* C24: loadURL is called only after start() has resolved, which takes a
\* readiness chunk, and with the URL of exactly the port start() resolved
\* with; when start() rejected loadURL is never called.
C24_LoadsOnlyAfterReady ==
  /\ app.url # "" <=> app.startApp = "loaded"
  /\ app.startApp = "loaded" =>
       /\ call[1].pc = "resolved"
       /\ child[1].emitted >= 1 /\ child[1].firstN # -1
       /\ app.url = BackendURL(call[1].result)
  /\ call[1].pc = "rejected" => app.url = ""
\* the URL was loaded after a later chunk had moved the supervisor's port
\* field away from the port start() resolved with
C24_Witness ==
  /\ app.startApp = "loaded"
  /\ app.url = BackendURL(call[1].result)
  /\ port # call[1].result

\* C25: the 'close' handler's first step calls stop() and leaves the window
\* open (the default close is prevented); the window is destroyed only once
\* that stop() has completed, and if the stop() found a process handle, the
\* supervisor no longer holds that handle when the window is destroyed.
C25_DestroyOnlyAfterStop ==
  [][/\ (stop[CloseStop].pc = "idle" /\ stop'[CloseStop].pc # "idle") =>
          /\ app.window = "open" /\ app'.window = "open"
          /\ stop'[CloseStop].target = process
     /\ (app.window = "open" /\ app'.window = "destroyed") =>
          /\ stop[CloseStop].pc = "resolved"
          /\ stop[CloseStop].target # 0 => process # stop[CloseStop].target]_vars
\* the window was closed while the backend ran: it is destroyed, the kill
\* callback of the handler's stop() has run for that child
C25_Witness ==
  /\ app.window = "destroyed"
  /\ stop[CloseStop].pc = "resolved" /\ stop[CloseStop].target = 1
  /\ child[1].state # "none"
  /\ process = 0

\* C26: whenever the supervisor is marked ready it holds a process handle.
C26_ReadyImpliesHandle ==
  isReady => process # 0

\* C27: every step of a start() up to its rejection before spawn (the call,
\* its probes, the allocator's throw, the rejection for no free port or for a
\* missing executable) leaves the process handle and the ready flag as they
\* are; the port field changes only when the allocator has returned, and
\* then to the port it returned.
C27_FailedStartKeepsHandleAndReady ==
  [][\A c \in StartIds :
       (/\ call'[c] # call[c]
        /\ call[c].pc \in {"idle", "probing", "threw", "returned"}
        /\ call'[c].pc \in {"probing", "threw", "returned", "rejected"}) =>
         /\ process' = process
         /\ isReady' = isReady
         /\ \/ port' = port
            \/ call[c].pc = "returned" /\ port' = call[c].found]_vars
\* a second start() was rejected for a missing executable while the first
\* start()'s backend is held and ready: the handle and the flag are kept, the
\* port field holds the second allocator's result
C27_Witness ==
  /\ call[2].pc = "rejected" /\ call[2].error = "NotFound"
  /\ ~Spawned(2)
  /\ process = 1 /\ isReady
  /\ port = call[2].found /\ call[2].found # call[1].result

\* C28: the catch block of startApp() (the 'Startup Error' box, then
\* app.quit()) runs only when start() rejected.
C28_StartupErrorOnlyWhenStartRejected ==
  app.startApp = "failed" => call[1].pc = "rejected"

====
